---------------------------- MODULE Spec2Model ----------------------------
(***************************************************************************)
(* State-machine model of gabbenunes/AutomatizaSimuATP.                    *)
(*                                                                         *)
(*   RodaeCriaPl4.py        the ATP job runner (specification Spec)        *)
(*   Pl4paraMatlab.py       PL4 -> MAT conversion                          *)
(*   step3_Pl42Parquet.py   PL4 -> parquet batch                           *)
(*   f_readpl4.py           the PL4 decoder                                *)
(*                                                                         *)
(* Environment of the runner.  The external process of a job (runATP.exe)  *)
(* starts a tpbig.exe whose working directory is the job's subfolder; the  *)
(* tpbig.exe may outlive runATP.exe.  shutil.rmtree(ignore_errors=True)    *)
(* removes a directory unless a live tpbig.exe still holds it, and never   *)
(* raises.  copy2, unlink and move may fail with an exception at any call. *)
(***************************************************************************)
EXTENDS Integers, Sequences, FiniteSets, TLC

\* ------------------------------------------------------------------------
\* Bounds of the model
\* ------------------------------------------------------------------------
NJobs == 3
NUuid == 1
\* file operations that may fail in one batch
MaxFaults == 1
\* .pl4 files found in ArquivoPL4 by the two converters
NPl4 == 3

\* polls of the folder before the appearance deadline passes
MaxPolls == 2
\* largest file size read by the stabilisation loop
MaxSize == 2

\* .pl4 files given to readpl4: length in bytes and the two header words
MaxFileLen == 116
MaxRawNvar == 3
MaxRawSize == 117

\* decoded files given to the crop helpers: channels, records, and the
\* sampling interval in time units
MaxVar == 1
MaxSteps == 3
MaxDeltaT == 1
\* crop arguments: samples per cycle, line frequency, half seconds to remove
MaxFs == 2
MaxFreq == 1
MaxHalfSeconds == 3

\* records of the file given to processar_um
MaxRecords == 4

\* dicts given to save_results_parquet: samples of time and of a series,
\* labels of a complete dict, keys of a dict of interest
MaxTime == 2
MaxLabels == 3
MaxKeys == 2

\* Pl4paraMatlab.STABILIZE_TRIES
STABILIZE_TRIES == 6

\* RodaeCriaPl4.NUMTHREADS = max(1, os.cpu_count() // 2): a machine with 4 CPUs
NUMTHREADS == 2

Jobs == 1..NJobs
UUIDs == 1..NUuid

\* ------------------------------------------------------------------------
\* State
\* ------------------------------------------------------------------------
VARIABLES
    prog,        \* which program of the repository is running
    \* --- RodaeCriaPl4.py ---
    timeout_s,   \* TIMEOUT_S: "None" or "finite" (a configured limit)
    mainpc,      \* position of main()
    nextIdx,     \* index in atp_files of the next input to submit
    cur,         \* the job whose future main() is handling (0: none)
    pc,          \* pc[j]: position of job j's task
    ret,         \* ret[j]: how run_atp_arquivo ends: "ok", "none", "exc", "timeout"
    subtemp,     \* subtemp[j]: uuid of the job's subfolder (0: none created)
    fresh,       \* fresh[j]: the subfolder did not exist before the job's mkdir
    pl4local,    \* pl4local[j]: a .pl4 is present in the job's subfolder
    tmpdirs,     \* subfolders present in TmpATP/, as <<stem, uuid>>
    tpbig,       \* jobs whose tpbig.exe is alive
    pl4out,      \* pl4out[j]: <stem>.pl4 in ArquivoPL4/: "absent", "stale", "new"
    quar,        \* quar[j]: <name>.atp in cartoesnaorodados/: "absent", "stale", "new"
    results,     \* the results list of main(), as the set of its jobs
    consumed,    \* futures main() has taken from as_completed and handled
    cleaned,     \* cleaned[j]: rmtree was called on the job's subfolder by its task
    rmcalls,     \* rmcalls[j]: calls of shutil.rmtree made by the task's _limpa_dir
    quarCalled,  \* quarCalled[j]: number of calls of _copia_cartao_nao_rodado
    quarFailed,  \* quarFailed[j]: a call of _copia_cartao_nao_rodado ended in its except
    faults,      \* number of file operations (copy2, unlink, move) that have failed
    swept,       \* subfolders the final sweep of main() removed
    \* --- Pl4paraMatlab.py: main() and _process_one ---
    mmain,       \* position of main()
    mpc,         \* mpc[f]: position of the task of .pl4 file f
    mret,        \* mret[f]: what _process_one returned: "ok" or "fail"; "raised" if it raised
    mcount,      \* [ok |-> , fail |-> ]: the counters of main()
    mdone,       \* futures main() has taken from as_completed
    mats,        \* the .MAT files in ArquivoPL4/, each named by the file converted
    mgot,        \* mgot[f]: the .MAT the wait of f returned (0: none)
    \* --- Pl4paraMatlab.py: _wait_for_mat_creation_and_stabilize ---
    wpc,         \* position in the function
    polls,       \* iterations of the appearance loop so far
    mat_path,    \* mat_path: "None", or which entry of the folder was found
    last_size,   \* last_size
    stable_count,\* stable_count
    tries,       \* iterations of the stabilisation loop so far
    samples,     \* the sizes st_size returned, in order
    \* --- step3_Pl42Parquet.py: Pl4Processor.executar ---
    qpc,         \* position of executar()
    qidx,        \* index in pl4s of the file being processed
    qok,         \* files processar_um saved
    qfailed,     \* files whose processar_um raised
    \* --- f_readpl4.py: readpl4 ---
    dpc,         \* position in readpl4
    file,        \* the file: [len, rawnvar, rawsize], its length and header fields
    misc,        \* misc: [deltat, nvar, pl4size, steps, tmax]
    \* --- f_readpl4.py: readpl4, one channel descriptor ---
    tpc,         \* position in the decoding of the descriptor
    tbyte,       \* the byte of the TYPE field (0..255)
    tvar,        \* the var_info entry: [TYPE, TYPE_NAME]
    \* --- f_readpl4.py / step3_Pl42Parquet.py: the crop helpers ---
    cpc,         \* "ready", or "idle"
    objs,        \* the dict objects created so far, objs[1] the decoded one
    ref,         \* index in objs of the dict the caller holds now
    call,        \* the last crop call: its arguments, input and result
    \* --- step3_Pl42Parquet.py: Pl4Processor.processar_um ---
    ppc,         \* ppc[m]: position of processar_um in export mode m
    pcfg,        \* the decoded file, nomes_interesse and the crop parameters
    pdict,       \* pdict[m]: the dict the run of mode m holds (resultado, medicoes)
    pcuts,       \* pcuts[m]: calls that removed samples in the run of mode m
    pcols,       \* the columns of the table exported with selected channels
    \* --- f_readpl4.py: save_results_parquet ---
    spc,         \* position in save_results_parquet
    sarg,        \* the arguments of the call
    sdict,       \* data_dict after the optional crop
    scols,       \* the column names of the table, time first
    sdest,       \* the destination file: "absent", "old", "partial", "new"
    sret         \* how the call ended: "", "returned", or the exception

varsRun == <<timeout_s, mainpc, nextIdx, cur, pc, ret, subtemp, fresh, pl4local,
             tmpdirs, tpbig, pl4out, quar, results, consumed, cleaned, rmcalls,
             quarCalled, quarFailed, faults, swept>>

varsMat == <<mmain, mpc, mret, mcount, mdone, mats, mgot>>

varsStab == <<wpc, polls, mat_path, last_size, stable_count, tries, samples>>

varsPq == <<qpc, qidx, qok, qfailed>>

varsDec == <<dpc, file, misc>>

varsType == <<tpc, tbyte, tvar>>

varsCrop == <<cpc, objs, ref, call>>

varsProc == <<ppc, pcfg, pdict, pcuts, pcols>>

varsSave == <<spc, sarg, sdict, scols, sdest, sret>>

vars == <<prog, varsRun, varsMat, varsStab, varsPq, varsDec,
          varsType, varsCrop, varsProc, varsSave>>

\* what an action of one program leaves alone
notRun == <<prog, varsMat, varsStab, varsPq, varsDec,
           varsType, varsCrop, varsProc, varsSave>>

notMat == <<prog, varsRun, varsStab, varsPq, varsDec,
           varsType, varsCrop, varsProc, varsSave>>

notStab == <<prog, varsRun, varsMat, varsPq, varsDec,
           varsType, varsCrop, varsProc, varsSave>>

notPq == <<prog, varsRun, varsMat, varsStab, varsDec,
           varsType, varsCrop, varsProc, varsSave>>

notDec == <<prog, varsRun, varsMat, varsStab, varsPq,
           varsType, varsCrop, varsProc, varsSave>>

notType == <<prog, varsRun, varsMat, varsStab, varsPq, varsDec,
            varsCrop, varsProc, varsSave>>

notCrop == <<prog, varsRun, varsMat, varsStab, varsPq, varsDec,
            varsType, varsProc, varsSave>>

notProc == <<prog, varsRun, varsMat, varsStab, varsPq, varsDec,
            varsType, varsCrop, varsSave>>

notSave == <<prog, varsRun, varsMat, varsStab, varsPq, varsDec,
            varsType, varsCrop, varsProc>>

\* ------------------------------------------------------------------------
\* RodaeCriaPl4.py: helpers
\* ------------------------------------------------------------------------
\* atp_path.stem: atp_files are the distinct files of one folder
Stem(j) == j

\* PASTA_TMP_ATP / f"{stem}__{uuid.uuid4().hex[:8]}"
SubName(j, u) == <<Stem(j), u>>

SubDir(j) == SubName(j, subtemp[j])

\* conta_tpbig(): the number of live tpbig.exe processes
conta_tpbig == Cardinality(tpbig)

\* a live tpbig.exe keeps its working directory from being removed
Locked(d) == \E j \in tpbig : subtemp[j] # 0 /\ SubDir(j) = d

\* shutil.rmtree(p, ignore_errors=True): never raises; what is left of dirs
Rmtree(d, dirs) == IF Locked(d) THEN dirs ELSE dirs \ {d}

\* whether shutil.rmtree(p, ignore_errors=True) raises: errors are ignored
RmtreeRaises == {FALSE}

\* _limpa_dir(p): rmtree is called when p exists; its except branch needs an
\* exception that ignore_errors=True never lets through
limpa_dir(d, dirs) == IF d \in dirs THEN Rmtree(d, dirs) ELSE dirs

\* mutant of MkdirRefuses: mkdir(exist_ok=True) accepts an existing subfolder
MkdirRefuses_ExistOk(d) == FALSE

\* sub.mkdir(parents=True, exist_ok=False) raises FileExistsError
MkdirRefuses(d) == d \in tmpdirs

\* ThreadPoolExecutor(max_workers=NUMTHREADS): a task runs on one of NUMTHREADS threads
OnWorker(j) ==
    pc[j] \in {"copy", "run", "check", "mv_exists", "mv_move",
               "q_exists", "q_copy", "cleanup"}

\* mutant of PoolHasFreeWorker: a pool that starts a thread for every task
PoolHasFreeWorker_Unbounded == TRUE

PoolHasFreeWorker == Cardinality({j \in Jobs : OnWorker(j)}) < NUMTHREADS

\* the executor's work queue is first in, first out
HeadOfQueue(j) == pc[j] = "queued" /\ \A k \in Jobs : pc[k] = "queued" => j <= k

\* mutant of RunsFinally: _limpa_dir at the end of the try body instead of in a finally
RunsFinally_OnlyOnReturn(kind) == kind \in {"ok", "none"}

\* mutant of RunsFinally: TimeoutExpired leaves run_atp_arquivo without _limpa_dir
RunsFinally_NotOnTimeout(kind) == kind # "timeout"

\* the try ... finally of run_atp_arquivo: every way out of the try runs _limpa_dir
RunsFinally(kind) == kind \in {"ok", "none", "exc", "timeout"}

\* a submission loop that does not look at the probe
MaySubmit_Unthrottled == TRUE

\* a submission loop whose condition never lets it end
MaySubmit_Never == conta_tpbig < 0

\* while conta_tpbig() >= NUMTHREADS: time.sleep(0.5)
MaySubmit == conta_tpbig < NUMTHREADS

\* a collection loop that handles only the timeout
MainCatches_OnlyTimeout(kind) == kind = "timeout"

\* except subprocess.TimeoutExpired / except Exception around fut.result()
MainCatches(kind) == kind \in {"timeout", "exc"}

\* mutant of CountsAsResult: results.append(pl4_destino) also when it is None
CountsAsResult_AlsoNone(r) == r \in {"ok", "none"}

\* if pl4_destino is None: print(...) else: results.append(pl4_destino)
CountsAsResult(r) == r = "ok"

\* mutant of SweepMayStart: the sweep does not wait for the tpbig.exe processes
SweepMayStart_NoWait == TRUE

\* while conta_tpbig() > 0: time.sleep(0.5)
SweepMayStart == conta_tpbig = 0

\* a file operation succeeds (TRUE) or raises (FALSE)
FileOp == IF faults < MaxFaults THEN BOOLEAN ELSE {TRUE}

\* leaving the try of run_atp_arquivo with a result or an exception
Leave(j, kind) ==
    /\ ret' = [ret EXCEPT ![j] = kind]
    /\ pc' = [pc EXCEPT ![j] = IF RunsFinally(kind) THEN "cleanup" ELSE "returned"]

\* ------------------------------------------------------------------------
\* A program that is not the one running keeps its variables at rest
\* ------------------------------------------------------------------------
IdleRun ==
    /\ timeout_s = "None"
    /\ mainpc = "idle"
    /\ nextIdx = 0
    /\ cur = 0
    /\ pc = <<>>
    /\ ret = <<>>
    /\ subtemp = <<>>
    /\ fresh = <<>>
    /\ pl4local = <<>>
    /\ tmpdirs = {}
    /\ tpbig = {}
    /\ pl4out = <<>>
    /\ quar = <<>>
    /\ results = {}
    /\ consumed = {}
    /\ cleaned = <<>>
    /\ rmcalls = <<>>
    /\ quarCalled = <<>>
    /\ quarFailed = <<>>
    /\ faults = 0
    /\ swept = {}

IdleMat ==
    /\ mmain = "idle"
    /\ mpc = <<>>
    /\ mret = <<>>
    /\ mcount = [ok |-> 0, fail |-> 0]
    /\ mdone = {}
    /\ mats = {}
    /\ mgot = <<>>

IdleStab ==
    /\ wpc = "idle"
    /\ polls = 0
    /\ mat_path = "None"
    /\ last_size = -1
    /\ stable_count = 0
    /\ tries = 0
    /\ samples = <<>>

IdlePq ==
    /\ qpc = "idle"
    /\ qidx = 0
    /\ qok = {}
    /\ qfailed = {}

IdleDec ==
    /\ dpc = "idle"
    /\ file = [len |-> 0, rawnvar |-> 0, rawsize |-> 0, typeok |-> TRUE]
    /\ misc = [deltat |-> 0, nvar |-> 0, pl4size |-> 0, steps |-> 0, tmax |-> 0]

IdleType ==
    /\ tpc = "idle"
    /\ tbyte = 0
    /\ tvar = [TYPE |-> 0, TYPE_NAME |-> ""]

IdleCrop ==
    /\ cpc = "idle"
    /\ objs = <<>>
    /\ ref = 0
    /\ call = <<>>

IdleProc ==
    /\ ppc = <<>>
    /\ pcfg = <<>>
    /\ pdict = <<>>
    /\ pcuts = <<>>
    /\ pcols = <<>>

IdleSave ==
    /\ spc = "idle"
    /\ sarg = <<>>
    /\ sdict = <<>>
    /\ scols = <<>>
    /\ sdest = "absent"
    /\ sret = ""

\* the export programs at rest
IdleExport == IdleType /\ IdleCrop /\ IdleProc /\ IdleSave

\* ------------------------------------------------------------------------
\* RodaeCriaPl4.py: initial state
\* ------------------------------------------------------------------------
\* a subfolder an earlier batch may have left in TmpATP/
LeftoverDirs == {SubName(2, 1)}

\* ArquivoPL4/, cartoesnaorodados/ and TmpATP/ are created if missing and never
\* emptied at start: an earlier batch over the same inputs may have left its
\* .pl4 files, its quarantine copies and a subfolder.
InitRun ==
    /\ prog = "runner"
    /\ timeout_s \in {"None", "finite"}
    /\ mainpc = "submit"
    /\ nextIdx = 1
    /\ cur = 0
    /\ pc = [j \in Jobs |-> "pending"]
    /\ ret = [j \in Jobs |-> "pending"]
    /\ subtemp = [j \in Jobs |-> 0]
    /\ fresh = [j \in Jobs |-> FALSE]
    /\ pl4local = [j \in Jobs |-> FALSE]
    /\ tmpdirs \in SUBSET LeftoverDirs
    /\ \E old \in {{}, Jobs} :
          /\ pl4out = [j \in Jobs |-> IF j \in old THEN "stale" ELSE "absent"]
          /\ quar = [j \in Jobs |-> IF j \in old THEN "stale" ELSE "absent"]
    /\ tpbig = {}
    /\ results = {}
    /\ consumed = {}
    /\ cleaned = [j \in Jobs |-> FALSE]
    /\ rmcalls = [j \in Jobs |-> 0]
    /\ quarCalled = [j \in Jobs |-> 0]
    /\ quarFailed = [j \in Jobs |-> FALSE]
    /\ faults = 0
    /\ swept = {}
    /\ IdleMat /\ IdleStab /\ IdlePq /\ IdleDec /\ IdleExport

\* ------------------------------------------------------------------------
\* RodaeCriaPl4.py: main(), submission loop
\* ------------------------------------------------------------------------
Submit ==
    /\ prog = "runner"
    /\ mainpc = "submit"
    /\ MaySubmit
    /\ pc' = [pc EXCEPT ![nextIdx] = "queued"]
    /\ nextIdx' = nextIdx + 1
    /\ mainpc' = IF nextIdx = NJobs THEN "collect" ELSE "submit"
    /\ UNCHANGED <<notRun, faults, swept, timeout_s, cur, ret, subtemp, fresh, pl4local, tmpdirs,
                   tpbig, pl4out, quar, results, consumed, cleaned, rmcalls, quarCalled,
                   quarFailed>>

\* ------------------------------------------------------------------------
\* RodaeCriaPl4.py: run_atp_arquivo, one task per job
\* ------------------------------------------------------------------------
\* a pool thread takes the task; _cria_subpasta_temp(stem) runs before the try
Start(j) ==
    /\ prog = "runner"
    /\ HeadOfQueue(j)
    /\ PoolHasFreeWorker
    /\ \E u \in UUIDs :
          IF MkdirRefuses(SubName(j, u))
          THEN /\ ret' = [ret EXCEPT ![j] = "exc"]
               /\ pc' = [pc EXCEPT ![j] = "returned"]
               /\ UNCHANGED <<subtemp, fresh, tmpdirs>>
          ELSE /\ subtemp' = [subtemp EXCEPT ![j] = u]
               /\ fresh' = [fresh EXCEPT ![j] = SubName(j, u) \notin tmpdirs]
               /\ tmpdirs' = tmpdirs \cup {SubName(j, u)}
               /\ pc' = [pc EXCEPT ![j] = "copy"]
               /\ UNCHANGED ret
    /\ UNCHANGED <<notRun, faults, swept, timeout_s, mainpc, nextIdx, cur, pl4local, tpbig, pl4out,
                   quar, results, consumed, cleaned, rmcalls, quarCalled, quarFailed>>

\* shutil.copy2(atp_path, atp_copia), then subprocess.run launches runATP.exe
CopyInput(j) ==
    /\ prog = "runner"
    /\ pc[j] = "copy"
    /\ \E ok \in FileOp :
          IF ok
          THEN /\ faults' = faults
               /\ pc' = [pc EXCEPT ![j] = "run"]
               /\ tpbig' = tpbig \cup {j}
               /\ UNCHANGED ret
          ELSE /\ faults' = faults + 1
               /\ Leave(j, "exc")
               /\ UNCHANGED tpbig
    /\ UNCHANGED <<notRun, swept, timeout_s, mainpc, nextIdx, cur, subtemp, fresh, pl4local,
                   tmpdirs, pl4out, quar, results, consumed, cleaned, rmcalls, quarCalled,
                   quarFailed>>

\* subprocess.run returns: the .pl4 was written or not, tpbig.exe ended or not
ProcReturns(j) ==
    /\ prog = "runner"
    /\ pc[j] = "run"
    /\ \E produced \in BOOLEAN, linger \in BOOLEAN :
          /\ pl4local' = [pl4local EXCEPT ![j] = produced]
          /\ tpbig' = IF linger THEN tpbig ELSE tpbig \ {j}
    /\ pc' = [pc EXCEPT ![j] = "check"]
    /\ UNCHANGED <<notRun, faults, swept, timeout_s, mainpc, nextIdx, cur, ret, subtemp, fresh,
                   tmpdirs, pl4out, quar, results, consumed, cleaned, rmcalls, quarCalled,
                   quarFailed>>

\* subprocess.run(..., timeout=TIMEOUT_S) raises TimeoutExpired
ProcTimeout(j) ==
    /\ prog = "runner"
    /\ pc[j] = "run"
    /\ timeout_s = "finite"
    /\ \E linger \in BOOLEAN : tpbig' = IF linger THEN tpbig ELSE tpbig \ {j}
    /\ Leave(j, "timeout")
    /\ UNCHANGED <<notRun, faults, swept, timeout_s, mainpc, nextIdx, cur, subtemp, fresh, pl4local,
                   tmpdirs, pl4out, quar, results, consumed, cleaned, rmcalls, quarCalled,
                   quarFailed>>

\* a task that goes on to the move without looking for the .pl4
CheckPl4_NoLook(j) ==
    /\ prog = "runner"
    /\ pc[j] = "check"
    /\ pc' = [pc EXCEPT ![j] = "mv_exists"]
    /\ UNCHANGED <<notRun, faults, swept, timeout_s, mainpc, nextIdx, cur, ret, subtemp, fresh,
                   pl4local, tmpdirs, tpbig, pl4out, quar, results, consumed,
                   cleaned, rmcalls, quarCalled, quarFailed>>

\* if pl4_local.exists(): ... else: _copia_cartao_nao_rodado(atp_path)
CheckPl4(j) ==
    /\ prog = "runner"
    /\ pc[j] = "check"
    /\ IF pl4local[j]
       THEN /\ pc' = [pc EXCEPT ![j] = "mv_exists"]
            /\ UNCHANGED quarCalled
       ELSE /\ pc' = [pc EXCEPT ![j] = "q_exists"]
            /\ quarCalled' = [quarCalled EXCEPT ![j] = @ + 1]
    /\ UNCHANGED <<notRun, faults, swept, timeout_s, mainpc, nextIdx, cur, ret, subtemp, fresh,
                   pl4local, tmpdirs, tpbig, pl4out, quar, results, consumed,
                   cleaned, rmcalls, quarFailed>>

\* if destino.exists(): destino.unlink()      (a failure becomes RuntimeError)
MoveUnlink(j) ==
    /\ prog = "runner"
    /\ pc[j] = "mv_exists"
    /\ IF pl4out[j] # "absent"
       THEN \E ok \in FileOp :
               IF ok
               THEN /\ faults' = faults
                    /\ pl4out' = [pl4out EXCEPT ![j] = "absent"]
                    /\ pc' = [pc EXCEPT ![j] = "mv_move"]
                    /\ UNCHANGED ret
               ELSE /\ faults' = faults + 1
                    /\ Leave(j, "exc")
                    /\ UNCHANGED pl4out
       ELSE /\ UNCHANGED faults
            /\ pc' = [pc EXCEPT ![j] = "mv_move"]
            /\ UNCHANGED <<ret, pl4out>>
    /\ UNCHANGED <<notRun, swept, timeout_s, mainpc, nextIdx, cur, subtemp, fresh, pl4local,
                   tmpdirs, tpbig, quar, results, consumed, cleaned, rmcalls, quarCalled,
                   quarFailed>>

\* shutil.move(pl4_local, destino); return destino   (a failure becomes RuntimeError)
MovePl4(j) ==
    /\ prog = "runner"
    /\ pc[j] = "mv_move"
    /\ \E ok \in FileOp :
          IF ok
          THEN /\ faults' = faults
               /\ pl4out' = [pl4out EXCEPT ![j] = "new"]
               /\ pl4local' = [pl4local EXCEPT ![j] = FALSE]
               /\ Leave(j, "ok")
          ELSE /\ faults' = faults + 1
               /\ Leave(j, "exc")
               /\ UNCHANGED <<pl4out, pl4local>>
    /\ UNCHANGED <<notRun, swept, timeout_s, mainpc, nextIdx, cur, subtemp, fresh, tmpdirs,
                   tpbig, quar, results, consumed, cleaned, rmcalls, quarCalled, quarFailed>>

\* _copia_cartao_nao_rodado, called by the task: if destino.exists(): destino.unlink()
QuarUnlink(j) ==
    /\ prog = "runner"
    /\ pc[j] = "q_exists"
    /\ IF quar[j] # "absent"
       THEN \E ok \in FileOp :
               IF ok
               THEN /\ faults' = faults
                    /\ quar' = [quar EXCEPT ![j] = "absent"]
                    /\ pc' = [pc EXCEPT ![j] = "q_copy"]
                    /\ UNCHANGED <<ret, quarFailed>>
               ELSE /\ faults' = faults + 1
                    /\ quarFailed' = [quarFailed EXCEPT ![j] = TRUE]
                    /\ Leave(j, "none")
                    /\ UNCHANGED quar
       ELSE /\ UNCHANGED faults
            /\ pc' = [pc EXCEPT ![j] = "q_copy"]
            /\ UNCHANGED <<ret, quar, quarFailed>>
    /\ UNCHANGED <<notRun, swept, timeout_s, mainpc, nextIdx, cur, subtemp, fresh, pl4local,
                   tmpdirs, tpbig, pl4out, results, consumed, cleaned, rmcalls, quarCalled>>

\* _copia_cartao_nao_rodado, called by the task: shutil.copy2; then return None
QuarCopy(j) ==
    /\ prog = "runner"
    /\ pc[j] = "q_copy"
    /\ \E ok \in FileOp :
          IF ok
          THEN /\ faults' = faults
               /\ quar' = [quar EXCEPT ![j] = "new"]
               /\ UNCHANGED quarFailed
          ELSE /\ faults' = faults + 1
               /\ quarFailed' = [quarFailed EXCEPT ![j] = TRUE]
               /\ UNCHANGED quar
    /\ Leave(j, "none")
    /\ UNCHANGED <<notRun, swept, timeout_s, mainpc, nextIdx, cur, subtemp, fresh, pl4local,
                   tmpdirs, tpbig, pl4out, results, consumed, cleaned, rmcalls, quarCalled>>

\* finally: _limpa_dir(subtemp); the task ends and its future is done
Cleanup(j) ==
    /\ prog = "runner"
    /\ pc[j] = "cleanup"
    /\ cleaned' = [cleaned EXCEPT ![j] = SubDir(j) \in tmpdirs]
    /\ \E raised \in RmtreeRaises, more \in 1..3 :
          rmcalls' = [rmcalls EXCEPT ![j] =
                         IF SubDir(j) \notin tmpdirs THEN 0
                         ELSE IF raised THEN 1 + more
                         ELSE 1]
    /\ tmpdirs' = limpa_dir(SubDir(j), tmpdirs)
    /\ pc' = [pc EXCEPT ![j] = "returned"]
    /\ UNCHANGED <<notRun, faults, swept, timeout_s, mainpc, nextIdx, cur, ret, subtemp, fresh,
                   pl4local, tpbig, pl4out, quar, results, consumed, quarCalled,
                   quarFailed>>

\* a tpbig.exe that outlived its runATP.exe ends
TpbigExit(j) ==
    /\ prog = "runner"
    /\ j \in tpbig
    /\ pc[j] # "run"
    /\ tpbig' = tpbig \ {j}
    /\ UNCHANGED <<notRun, faults, swept, timeout_s, mainpc, nextIdx, cur, pc, ret, subtemp, fresh,
                   pl4local, tmpdirs, pl4out, quar, results, consumed, cleaned, rmcalls,
                   quarCalled, quarFailed>>

\* ------------------------------------------------------------------------
\* RodaeCriaPl4.py: main(), the as_completed loop and the final sweep
\* ------------------------------------------------------------------------
\* for fut in as_completed(futures): fut.result() and its handlers
Collect(j) ==
    /\ prog = "runner"
    /\ mainpc = "collect"
    /\ pc[j] = "returned"
    /\ j \notin consumed
    /\ IF ret[j] \in {"ok", "none"}
       THEN /\ results' = IF CountsAsResult(ret[j]) THEN results \cup {j} ELSE results
            /\ consumed' = consumed \cup {j}
            /\ UNCHANGED <<mainpc, cur, quarCalled>>
       ELSE IF MainCatches(ret[j])
            THEN /\ mainpc' = "h_exists"
                 /\ cur' = j
                 /\ quarCalled' = [quarCalled EXCEPT ![j] = @ + 1]
                 /\ UNCHANGED <<results, consumed>>
            ELSE /\ mainpc' = "aborted"
                 /\ UNCHANGED <<cur, results, consumed, quarCalled>>
    /\ UNCHANGED <<notRun, faults, swept, timeout_s, nextIdx, pc, ret, subtemp, fresh, pl4local,
                   tmpdirs, tpbig, pl4out, quar, cleaned, rmcalls, quarFailed>>

\* _copia_cartao_nao_rodado, called by main(): if destino.exists(): destino.unlink()
HandleUnlink ==
    /\ prog = "runner"
    /\ mainpc = "h_exists"
    /\ IF quar[cur] # "absent"
       THEN \E ok \in FileOp :
               IF ok
               THEN /\ faults' = faults
                    /\ quar' = [quar EXCEPT ![cur] = "absent"]
                    /\ mainpc' = "h_copy"
                    /\ UNCHANGED <<cur, consumed, quarFailed>>
               ELSE /\ faults' = faults + 1
                    /\ quarFailed' = [quarFailed EXCEPT ![cur] = TRUE]
                    /\ consumed' = consumed \cup {cur}
                    /\ mainpc' = "collect"
                    /\ cur' = 0
                    /\ UNCHANGED quar
       ELSE /\ UNCHANGED faults
            /\ mainpc' = "h_copy"
            /\ UNCHANGED <<cur, consumed, quar, quarFailed>>
    /\ UNCHANGED <<notRun, swept, timeout_s, nextIdx, pc, ret, subtemp, fresh, pl4local,
                   tmpdirs, tpbig, pl4out, results, cleaned, rmcalls, quarCalled>>

\* _copia_cartao_nao_rodado, called by main(): shutil.copy2; then pbar.update(1)
HandleCopy ==
    /\ prog = "runner"
    /\ mainpc = "h_copy"
    /\ \E ok \in FileOp :
          IF ok
          THEN /\ faults' = faults
               /\ quar' = [quar EXCEPT ![cur] = "new"]
               /\ UNCHANGED quarFailed
          ELSE /\ faults' = faults + 1
               /\ quarFailed' = [quarFailed EXCEPT ![cur] = TRUE]
               /\ UNCHANGED quar
    /\ consumed' = consumed \cup {cur}
    /\ mainpc' = "collect"
    /\ cur' = 0
    /\ UNCHANGED <<notRun, swept, timeout_s, nextIdx, pc, ret, subtemp, fresh, pl4local,
                   tmpdirs, tpbig, pl4out, results, cleaned, rmcalls, quarCalled>>

\* as_completed is exhausted; pbar.close(); the with block ends
CollectDone ==
    /\ prog = "runner"
    /\ mainpc = "collect"
    /\ consumed = Jobs
    /\ mainpc' = "wait_tpbig"
    /\ UNCHANGED <<notRun, faults, swept, timeout_s, nextIdx, cur, pc, ret, subtemp, fresh, pl4local,
                   tmpdirs, tpbig, pl4out, quar, results, consumed, cleaned, rmcalls,
                   quarCalled, quarFailed>>

\* while conta_tpbig() > 0: time.sleep(0.5)
WaitTpbig ==
    /\ prog = "runner"
    /\ mainpc = "wait_tpbig"
    /\ SweepMayStart
    /\ mainpc' = "sweep"
    /\ UNCHANGED <<notRun, faults, swept, timeout_s, nextIdx, cur, pc, ret, subtemp, fresh, pl4local,
                   tmpdirs, tpbig, pl4out, quar, results, consumed, cleaned, rmcalls,
                   quarCalled, quarFailed>>

\* for sub in PASTA_TMP_ATP.iterdir(): if sub.is_dir(): _limpa_dir(sub)
Sweep ==
    /\ prog = "runner"
    /\ mainpc = "sweep"
    /\ tmpdirs' = {d \in tmpdirs : d \in limpa_dir(d, tmpdirs)}
    /\ swept' = tmpdirs \ tmpdirs'
    /\ mainpc' = "done"
    /\ UNCHANGED <<notRun, faults, timeout_s, nextIdx, cur, pc, ret, subtemp, fresh, pl4local,
                   tpbig, pl4out, quar, results, consumed, cleaned, rmcalls, quarCalled,
                   quarFailed>>

NextRun ==
    \/ Submit
    \/ \E j \in Jobs : Start(j)
    \/ \E j \in Jobs : CopyInput(j)
    \/ \E j \in Jobs : ProcReturns(j)
    \/ \E j \in Jobs : ProcTimeout(j)
    \/ \E j \in Jobs : CheckPl4(j)
    \/ \E j \in Jobs : MoveUnlink(j)
    \/ \E j \in Jobs : MovePl4(j)
    \/ \E j \in Jobs : QuarUnlink(j)
    \/ \E j \in Jobs : QuarCopy(j)
    \/ \E j \in Jobs : Cleanup(j)
    \/ \E j \in Jobs : TpbigExit(j)
    \/ \E j \in Jobs : Collect(j)
    \/ HandleUnlink
    \/ HandleCopy
    \/ CollectDone
    \/ WaitTpbig
    \/ Sweep

Init == InitRun

Next == NextRun

Spec == Init /\ [][Next]_vars

\* the runner with its threads scheduled and the processes it launches
\* returning: main() and the pool threads keep running while they have a
\* step to take and every subprocess.run returns or raises TimeoutExpired.
\* Nothing makes a tpbig.exe that outlived its runATP.exe end
SpecLive ==
    Init /\ [][Next]_vars
         /\ WF_vars(Next /\ ~(\E j \in Jobs : TpbigExit(j)))

\* ------------------------------------------------------------------------
\* Pl4paraMatlab.py: main() converts every .pl4 of ArquivoPL4 on a pool of
\* NUMTHREADS workers; _process_one wraps _run_pl42mat_like_matlab
\* ------------------------------------------------------------------------
Pl4Files == 1..NPl4

\* stem.lower(): the first two files have stems that differ only in case
\* (a.pl4 and A.pl4 in a folder that tells them apart), the others do not
LowerStem(f) == IF f = 2 THEN 1 ELSE f

\* _find_generated_mat_in_dir(dir_path, stem): the paths it may return.
\* <stem>.mat, .MAT, .Mat are tried first; then the first file of the glob
\* whose lowered stem is stem.lower(), in the order the folder lists them
FindGeneratedMat(f, dir) ==
    IF f \in dir THEN {f}
    ELSE {g \in dir : LowerStem(g) = LowerStem(f)}

\* a worker is inside _process_one
MatOnWorker(f) == mpc[f] \in {"run", "wait", "move"}

\* ThreadPoolExecutor(max_workers=NUMTHREADS)
MatPoolHasFreeWorker ==
    Cardinality({f \in Pl4Files : MatOnWorker(f)}) < NUMTHREADS

\* _process_one: except subprocess.TimeoutExpired / except Exception
ProcessOneCatches(kind) == kind \in {"timeout", "exc"}

\* _process_one leaves with (mat_path, "OK"), with (None, err) when its
\* except clauses caught the failure, or by raising
ProcessOneLeave(f, kind) ==
    /\ mpc' = [mpc EXCEPT ![f] = "returned"]
    /\ mret' = [mret EXCEPT ![f] =
                   IF kind = "ok" THEN "ok"
                   ELSE IF ProcessOneCatches(kind) THEN "fail"
                   ELSE "raised"]

\* futures = {ex.submit(_process_one, p): p for p in pl4_files}
InitMat ==
    /\ prog = "mat"
    /\ mmain = "collect"
    /\ mpc = [f \in Pl4Files |-> "queued"]
    /\ mret = [f \in Pl4Files |-> "pending"]
    /\ mcount = [ok |-> 0, fail |-> 0]
    /\ mdone = {}
    /\ mats = {}
    /\ mgot = [f \in Pl4Files |-> 0]
    /\ IdleRun /\ IdleStab /\ IdlePq /\ IdleDec /\ IdleExport

\* a free worker takes the oldest queued task; _run_pl42mat_like_matlab
\* raises FileNotFoundError when Pl42mat.exe is missing, else removes old
\* <stem>.mat residues and launches the converter
MatStart(f) ==
    /\ prog = "mat"
    /\ mpc[f] = "queued"
    /\ \A g \in Pl4Files : mpc[g] = "queued" => f <= g
    /\ MatPoolHasFreeWorker
    /\ \E exe \in BOOLEAN :
          IF exe
          THEN /\ mpc' = [mpc EXCEPT ![f] = "run"]
               /\ mats' = mats \ {f}
               /\ UNCHANGED mret
          ELSE /\ ProcessOneLeave(f, "exc")
               /\ UNCHANGED mats
    /\ UNCHANGED <<notMat, mmain, mcount, mdone, mgot>>

\* subprocess.run(cmd, ..., timeout=TIMEOUT_PL42MAT) returns (any return
\* code: check=False), the converter having written <stem>.MAT in
\* ArquivoPL4/ or not, or raises TimeoutExpired
MatProc(f) ==
    /\ prog = "mat"
    /\ mpc[f] = "run"
    /\ \E expired \in BOOLEAN, written \in BOOLEAN :
          IF expired
          THEN /\ ProcessOneLeave(f, "timeout")
               /\ UNCHANGED mats
          ELSE /\ mpc' = [mpc EXCEPT ![f] = "wait"]
               /\ mats' = IF written THEN mats \cup {f} ELSE mats
               /\ UNCHANGED mret
    /\ UNCHANGED <<notMat, mmain, mcount, mdone, mgot>>

\* _wait_for_mat_creation_and_stabilize returns a path that
\* _find_generated_mat_in_dir found in ArquivoPL4/, or raises TimeoutError
\* (nothing found in time) / RuntimeError (size not valid)
MatWait(f) ==
    /\ prog = "mat"
    /\ mpc[f] = "wait"
    /\ \/ \E g \in FindGeneratedMat(f, mats) :
             /\ mgot' = [mgot EXCEPT ![f] = g]
             /\ mpc' = [mpc EXCEPT ![f] = "move"]
             /\ UNCHANGED mret
       \/ /\ ProcessOneLeave(f, "exc")
          /\ UNCHANGED mgot
    /\ UNCHANGED <<notMat, mmain, mcount, mdone, mats>>

\* shutil.move(str(mat_in_cwd), str(final_mat)); return final_mat
MatMove(f) ==
    /\ prog = "mat"
    /\ mpc[f] = "move"
    /\ \E moved \in BOOLEAN :
          /\ ProcessOneLeave(f, IF moved /\ mgot[f] \in mats
                                THEN "ok" ELSE "exc")
          /\ mats' = IF moved THEN mats \ {mgot[f]} ELSE mats
    /\ UNCHANGED <<notMat, mmain, mcount, mdone, mgot>>

\* for fut in as_completed(futures): result, msg = fut.result()
\* (not inside a try); ok += 1 or fail += 1
MatCollect(f) ==
    /\ prog = "mat"
    /\ mmain = "collect"
    /\ mpc[f] = "returned"
    /\ f \notin mdone
    /\ IF mret[f] = "raised"
       THEN /\ mmain' = "aborted"
            /\ UNCHANGED <<mcount, mdone>>
       ELSE /\ mdone' = mdone \cup {f}
            /\ mcount' = IF mret[f] = "ok"
                         THEN [mcount EXCEPT !.ok = @ + 1]
                         ELSE [mcount EXCEPT !.fail = @ + 1]
            /\ UNCHANGED mmain
    /\ UNCHANGED <<notMat, mpc, mret, mats, mgot>>

\* the as_completed loop is exhausted; print RESULTADO
MatDone ==
    /\ prog = "mat"
    /\ mmain = "collect"
    /\ mdone = Pl4Files
    /\ mmain' = "done"
    /\ UNCHANGED <<notMat, mpc, mret, mcount, mdone, mats, mgot>>

NextMat ==
    \/ \E f \in Pl4Files : MatStart(f)
    \/ \E f \in Pl4Files : MatProc(f)
    \/ \E f \in Pl4Files : MatWait(f)
    \/ \E f \in Pl4Files : MatMove(f)
    \/ \E f \in Pl4Files : MatCollect(f)
    \/ MatDone

\* ------------------------------------------------------------------------
\* step3_Pl42Parquet.py: Pl4Processor.executar() with modo_todos, one
\* processar_um(p) per .pl4 in sorted order
\* ------------------------------------------------------------------------
\* executar: try: self.processar_um(p) / except Exception as e: print
ExecutarCatches(kind) == kind = "exc"

InitPq ==
    /\ prog = "parquet"
    /\ qpc = "loop"
    /\ qidx = 1
    /\ qok = {}
    /\ qfailed = {}
    /\ IdleRun /\ IdleMat /\ IdleStab /\ IdleDec /\ IdleExport

\* one iteration of  for p in pl4s:  processar_um(p) returns or raises
ProcessarUm ==
    /\ prog = "parquet"
    /\ qpc = "loop"
    /\ qidx <= NPl4
    /\ \E kind \in {"ok", "exc"} :
          IF kind = "ok"
          THEN /\ qok' = qok \cup {qidx}
               /\ qidx' = qidx + 1
               /\ UNCHANGED <<qpc, qfailed>>
          ELSE IF ExecutarCatches(kind)
          THEN /\ qfailed' = qfailed \cup {qidx}
               /\ qidx' = qidx + 1
               /\ UNCHANGED <<qpc, qok>>
          ELSE /\ qpc' = "aborted"
               /\ UNCHANGED <<qidx, qok, qfailed>>
    /\ UNCHANGED notPq

\* the for loop is exhausted and executar returns
ExecutarDone ==
    /\ prog = "parquet"
    /\ qpc = "loop"
    /\ qidx > NPl4
    /\ qpc' = "done"
    /\ UNCHANGED <<notPq, qidx, qok, qfailed>>

NextPq == ProcessarUm \/ ExecutarDone

\* the three batch programs, each started on its own
InitBatch == InitRun \/ InitMat \/ InitPq

NextBatch == NextRun \/ NextMat \/ NextPq

SpecBatch == InitBatch /\ [][NextBatch]_vars

\* ------------------------------------------------------------------------
\* Pl4paraMatlab.py: _wait_for_mat_creation_and_stabilize(dir_path, stem,
\* appear_timeout_s), one call seen on its own; the converter writes the
\* .MAT while the function polls it
\* ------------------------------------------------------------------------
\* st_size values a read may return
Sizes == 0..MaxSize

InitStab ==
    /\ prog = "stabilize"
    /\ wpc = "appear"
    /\ polls = 0
    /\ mat_path = "None"
    /\ last_size = -1
    /\ stable_count = 0
    /\ tries = 0
    /\ samples = <<>>
    /\ IdleRun /\ IdleMat /\ IdlePq /\ IdleDec /\ IdleExport

\* while time.time() - t0 < appear_timeout_s:
\*     mat_path = _find_generated_mat_in_dir(dir_path, stem)
\*     if mat_path is not None: break
\*     time.sleep(0.5)
\* The folder holds any of: "same" (<stem>.mat, .MAT or .Mat), "othercase"
\* (a .mat file whose stem equals stem when both are lowered), "otherstem"
\* (a .mat file of another stem), "notmat" (a file of stem with another
\* suffix).  The candidates are tried first, then the glob.
PollAppear ==
    /\ prog = "stabilize"
    /\ wpc = "appear"
    /\ polls < MaxPolls
    /\ polls' = polls + 1
    /\ \E dir \in SUBSET {"same", "othercase", "otherstem", "notmat"} :
          /\ mat_path' = IF "same" \in dir THEN "same"
                         ELSE IF "othercase" \in dir THEN "othercase"
                         ELSE "None"
          /\ wpc' = IF mat_path' # "None" THEN "stabilize" ELSE "appear"
    /\ UNCHANGED <<notStab, last_size, stable_count, tries, samples>>

\* the appearance wait ends in the size loop whether or not a file was found
AppearTimeout_GoesOn ==
    /\ prog = "stabilize"
    /\ wpc = "appear"
    /\ polls = MaxPolls
    /\ wpc' = "stabilize"
    /\ UNCHANGED <<notStab, polls, mat_path, last_size, stable_count, tries,
                   samples>>

\* the loop ends with the time elapsed;  if mat_path is None: raise
\* TimeoutError
AppearTimeout ==
    /\ prog = "stabilize"
    /\ wpc = "appear"
    /\ polls = MaxPolls
    /\ mat_path = "None"
    /\ wpc' = "TimeoutError"
    /\ UNCHANGED <<notStab, polls, mat_path, last_size, stable_count, tries,
                   samples>>

\* stable_count after one reading
NextStableCount(size) ==
    IF size = last_size /\ size > 0 THEN stable_count + 1 ELSE 0

\* one pass of  for _ in range(STABILIZE_TRIES):  stat() raises when the
\* file is gone; the loop is left by break or when the range is exhausted
ReadSize ==
    /\ prog = "stabilize"
    /\ wpc = "stabilize"
    /\ tries < STABILIZE_TRIES
    /\ \E present \in BOOLEAN :
          IF present
          THEN \E size \in Sizes :
                  /\ stable_count' = NextStableCount(size)
                  /\ last_size' = size
                  /\ tries' = tries + 1
                  /\ samples' = Append(samples, size)
                  /\ wpc' = IF NextStableCount(size) >= 2
                               \/ tries + 1 = STABILIZE_TRIES
                            THEN "after_loop"
                            ELSE "stabilize"
          ELSE /\ wpc' = "OSError"
               /\ UNCHANGED <<last_size, stable_count, tries, samples>>
    /\ UNCHANGED <<notStab, polls, mat_path>>

\* if last_size <= 0: raise RuntimeError   /   return mat_path
AfterLoop ==
    /\ prog = "stabilize"
    /\ wpc = "after_loop"
    /\ wpc' = IF last_size <= 0 THEN "RuntimeError" ELSE "returned"
    /\ UNCHANGED <<notStab, polls, mat_path, last_size, stable_count, tries,
                   samples>>

NextStab == PollAppear \/ AppearTimeout \/ ReadSize \/ AfterLoop

SpecStab == InitStab /\ [][NextStab]_vars

\* ------------------------------------------------------------------------
\* f_readpl4.py: readpl4(filepath), the header arithmetic.  A file is its
\* length in bytes, the float at bytes 40..43 (in time units), the two
\* unsigned words at bytes 48..51 and 56..59, and whether the TYPE byte of
\* every channel descriptor is a decimal digit
\* ------------------------------------------------------------------------
\* bytes of one record: the time stamp and one float32 per channel
RowBytes(nvar) == (nvar + 1) * 4

\* bytes left for the records: misc["pl4size"] - 5 * 16 - misc["nvar"] * 16
RecordBytes(pl4size, nvar) == pl4size - 5 * 16 - nvar * 16

\* a record count rounded up to the next whole record
Steps_RoundedUp(pl4size, nvar) ==
    (RecordBytes(pl4size, nvar) + RowBytes(nvar) - 1) \div RowBytes(nvar)

\* misc["steps"] = (pl4size - 5*16 - nvar*16) // ((nvar + 1) * 4)
Steps(pl4size, nvar) == RecordBytes(pl4size, nvar) \div RowBytes(nvar)

\* a last instant that counts one interval per record
Tmax_PerRecord(steps, deltat) == steps * deltat

\* misc["tmax"] = (misc["steps"] - 1) * misc["deltat"]
Tmax(steps, deltat) == (steps - 1) * deltat

\* expsize = (5 + nvar) * 16 + steps * (nvar + 1) * 4
Expsize(m) == (5 + m.nvar) * 16 + m.steps * RowBytes(m.nvar)

\* nullbytes = pl4size - expsize if pl4size > expsize else 0
Nullbytes(m) == IF m.pl4size > Expsize(m) THEN m.pl4size - Expsize(m) ELSE 0

\* a data region that starts right after the channel descriptors
DataOffset_NoPadding(m) == (5 + m.nvar) * 16

\* offset=(5 + nvar) * 16 + nullbytes
DataOffset(m) == (5 + m.nvar) * 16 + Nullbytes(m)

\* np.memmap(f, mode="r", shape=(steps, nvar + 1), offset=...) maps the
\* bytes up to the end of the last record: a negative shape and a range
\* past the end of the file are both refused
MemmapOk(f, m) ==
    /\ m.steps >= 0
    /\ DataOffset(m) + m.steps * RowBytes(m.nvar) <= f.len

\* the files readpl4 may be given; a file too short to hold the header
\* words has none
InitDec ==
    /\ prog = "readpl4"
    /\ dpc = "open"
    /\ file \in [len : 0..MaxFileLen, deltat : 0..MaxDeltaT,
                 rawnvar : 0..MaxRawNvar,
                 rawsize : 0..MaxRawSize, typeok : BOOLEAN]
    /\ file.len < 60 =>
          /\ file.deltat = 0
          /\ file.rawnvar = 0
          /\ file.rawsize = 0
          /\ file.typeok
    /\ misc = [deltat |-> 0, nvar |-> 0, pl4size |-> 0, steps |-> 0, tmax |-> 0]
    /\ IdleRun /\ IdleMat /\ IdleStab /\ IdlePq /\ IdleExport

\* mmap.mmap(f.fileno(), 0, ...) and the struct.unpack of pl4[40:44],
\* pl4[48:52], pl4[56:60]; misc["deltat"], misc["nvar"], misc["pl4size"],
\* misc["steps"], misc["tmax"]
ReadHeader ==
    /\ prog = "readpl4"
    /\ dpc = "open"
    /\ IF file.len < 60
       THEN /\ dpc' = "error"
            /\ UNCHANGED misc
       ELSE /\ dpc' = "header"
            /\ misc' = [deltat |-> file.deltat,
                        nvar |-> file.rawnvar \div 2,
                        pl4size |-> file.rawsize - 1,
                        steps |-> Steps(file.rawsize - 1,
                                        file.rawnvar \div 2),
                        tmax |-> Tmax(Steps(file.rawsize - 1,
                                            file.rawnvar \div 2),
                                      file.deltat)]
    /\ UNCHANGED <<notDec, file>>

\* for i in range(nvar): struct.unpack("3x1c6s6s", pl4[pos : pos + 16]),
\* int(h[0])
ReadVarInfo ==
    /\ prog = "readpl4"
    /\ dpc = "header"
    /\ dpc' = IF misc.nvar = 0
                 \/ (file.len >= (5 + misc.nvar) * 16 /\ file.typeok)
              THEN "var_info"
              ELSE "error"
    /\ UNCHANGED <<notDec, file, misc>>

\* data = np.memmap(...); the result dict with 'n_samples': misc["steps"],
\* 'delta_t': misc["deltat"], 'tmax': misc["tmax"]
ReadData ==
    /\ prog = "readpl4"
    /\ dpc = "var_info"
    /\ dpc' = IF MemmapOk(file, misc) THEN "returned" ELSE "error"
    /\ UNCHANGED <<notDec, file, misc>>

NextDec == ReadHeader \/ ReadVarInfo \/ ReadData

SpecDec == InitDec /\ [][NextDec]_vars

\* ------------------------------------------------------------------------
\* f_readpl4.py: readpl4, the TYPE field of one channel descriptor
\* (struct.unpack("3x1c6s6s", ...) gives h[0], one byte)
\* ------------------------------------------------------------------------
\* the values of one byte
Bytes == 0..255

\* int(h[0]) of a bytes object of length 1 accepts the ASCII digits "0".."9"
\* and raises ValueError on every other byte
IsDigitByte(b) == b \in 48..57

\* int(h[0]) for a digit byte
IntOfByte(b) == b - 48

\* type_map = {4: "V-node", 7: "E-bran", 8: "V-bran", 9: "I-bran"}
type_map == (4 :> "V-node") @@ (7 :> "E-bran") @@ (8 :> "V-bran") @@ (9 :> "I-bran")

\* a lookup without a default
TypeName_NoDefault(code) ==
    IF code \in DOMAIN type_map THEN type_map[code] ELSE ""

\* type_map.get(v["TYPE"], f"Type-{v['TYPE']}")
TypeName(code) ==
    IF code \in DOMAIN type_map THEN type_map[code]
    ELSE "Type-" \o ToString(code)

InitType ==
    /\ prog = "descriptor"
    /\ tpc = "unpack"
    /\ tbyte \in Bytes
    /\ tvar = [TYPE |-> 0, TYPE_NAME |-> ""]
    /\ IdleRun /\ IdleMat /\ IdleStab /\ IdlePq /\ IdleDec
    /\ IdleCrop /\ IdleProc /\ IdleSave

\* var_info.append({"TYPE": int(h[0]), ...})
UnpackType ==
    /\ prog = "descriptor"
    /\ tpc = "unpack"
    /\ IF IsDigitByte(tbyte)
       THEN /\ tvar' = [tvar EXCEPT !.TYPE = IntOfByte(tbyte)]
            /\ tpc' = "var_info"
       ELSE /\ tpc' = "ValueError"
            /\ UNCHANGED tvar
    /\ UNCHANGED <<notType, tbyte>>

\* for v in var_info: v["TYPE_NAME"] = type_map.get(...)
NameType ==
    /\ prog = "descriptor"
    /\ tpc = "var_info"
    /\ tvar' = [tvar EXCEPT !.TYPE_NAME = TypeName(tvar.TYPE)]
    /\ tpc' = "named"
    /\ UNCHANGED <<notType, tbyte>>

NextType == UnpackType \/ NameType

SpecType == InitType /\ [][NextType]_vars

\* ------------------------------------------------------------------------
\* The crop helpers: f_readpl4._apply_cut_full_dict,
\* f_readpl4._apply_cut_interest_dict, Pl4Processor._recortar_resultado,
\* Pl4Processor._recortar_medicoes, and selecionar_variaveis_interesse,
\* applied in any order to the dict readpl4 returned.
\*
\* A dict is a record.  Its time vector is the sequence of the indices the
\* samples had in the decoded file; its matrix is the number of rows and
\* the sequence of its columns, each column named by the same index.  In a
\* dict of interest (kind "interest") rows counts the selected series and
\* cols is the content of each of them.  Seconds are counted in halves.
\* ------------------------------------------------------------------------
\* the result dict of readpl4 for nvar channels and steps records
ReadPl4Result(nvar, steps, dt) ==
    [kind |-> "full",
     time |-> [i \in 1..steps |-> i],
     tdim |-> 1,
     ddim |-> 2,
     rows |-> nvar,
     cols |-> [i \in 1..steps |-> i],
     labels |-> nvar,
     n_channels |-> nvar,
     n_samples |-> steps,
     delta_t |-> dt,
     tmax |-> (steps - 1) * dt]

\* a dict built by hand from a decoded one, with another shape
Reshaped(d, shape) ==
    CASE shape = "decoded" -> d
      [] shape = "data1d" -> [d EXCEPT !.ddim = 1]
      [] shape = "data3d" -> [d EXCEPT !.ddim = 3]
      [] shape = "time2d" -> [d EXCEPT !.tdim = 2]
      [] shape = "morecols" -> [d EXCEPT !.cols = Append(@, Len(@) + 1)]

Shapes == {"decoded", "data1d", "data3d", "time2d", "morecols"}

\* the keyword arguments of a crop (the attributes of the Pl4Processor)
CutArgs ==
    [remover_amostras : BOOLEAN,
     fs_por_ciclo : 1..MaxFs,
     freq_rede_hz : 1..MaxFreq,
     half_seconds : (-1)..MaxHalfSeconds,
     remover_de : {"inicio", "fim"}]

\* tempo_remover_s > 0
TempoPositive(a) == a.half_seconds > 0

\* int(x) of the product, x given in halves: truncation towards zero
IntOfHalves(x) == IF x >= 0 THEN x \div 2 ELSE -((-x) \div 2)

\* _calc_n_remover / _n_remover:
\* n = int(fs_por_ciclo * freq_rede_hz * tempo_remover_s); return max(n, 0)
calc_n_remover(a) ==
    LET n == IntOfHalves(a.fs_por_ciclo * a.freq_rede_hz * a.half_seconds)
    IN  IF n > 0 THEN n ELSE 0

\* x[n:]
SliceFrom(x, n) == SubSeq(x, n + 1, Len(x))

\* x[:-n]
SliceUntil(x, n) == IF n = 0 THEN <<>> ELSE SubSeq(x, 1, Len(x) - n)

\* a cut that always drops from the start
Corta_AlwaysStart(x, n, de) == SliceFrom(x, n)

\* x[:-n_drop] if remover_de == "fim" else x[n_drop:]
Corta(x, n, de) == IF de = "fim" THEN SliceUntil(x, n) ELSE SliceFrom(x, n)

\* a guard that lets a count of the whole length or more through
NothingToCut_OnlyZero(n, N) == n <= 0

\* if n_drop <= 0 or n_drop >= N: return
NothingToCut(n, N) == n <= 0 \/ n >= N

\* time.ndim != 1 or data.ndim != 2 or data.shape[1] != time.shape[0]
\* (a dict of interest has no "data": not cut)
ShapeRefused(d) ==
    \/ d.kind # "full"
    \/ d.tdim # 1
    \/ d.ddim # 2
    \/ Len(d.cols) # Len(d.time)

\* a result dict whose length fields are left as they were
CutFullDict_StaleScalars(d, a) ==
    [d EXCEPT !.time = Corta(d.time, calc_n_remover(a), a.remover_de),
              !.cols = Corta(d.cols, calc_n_remover(a), a.remover_de)]

\* out = dict(d); out["time"], out["data"], out["n_samples"], out["tmax"]
CutFullDict(d, a) ==
    LET n == calc_n_remover(a)
        time_new == Corta(d.time, n, a.remover_de)
    IN  [d EXCEPT !.time = time_new,
                  !.cols = Corta(d.cols, n, a.remover_de),
                  !.n_samples = Len(time_new),
                  !.tmax = (Len(time_new) - 1) * d.delta_t]

\* _apply_cut_full_dict and _recortar_resultado return their argument
FullCutSkipped(d, a) ==
    \/ ~(a.remover_amostras /\ TempoPositive(a))
    \/ ShapeRefused(d)
    \/ NothingToCut(calc_n_remover(a), Len(d.time))

\* _apply_cut_interest_dict and _recortar_medicoes return their argument
InterestCutSkipped(d, a) ==
    \/ ~(a.remover_amostras /\ TempoPositive(a))
    \/ d.tdim # 1
    \/ NothingToCut(calc_n_remover(a), Len(d.time))

\* out = {}; every value that is 1-D of length N is cut, the others kept
CutInterestDict(d, a) ==
    LET n == calc_n_remover(a)
    IN  [d EXCEPT !.time = Corta(d.time, n, a.remover_de),
                  !.cols = IF Len(d.cols) = Len(d.time)
                           THEN Corta(d.cols, n, a.remover_de)
                           ELSE d.cols]

\* the result written over the dict that was passed in
StoreResult_InPlace(d) == [objs |-> [objs EXCEPT ![ref] = d], ref |-> ref]

\* the result is a new dict object
StoreResult(d) == [objs |-> Append(objs, d), ref |-> Len(objs) + 1]

\* the record of a call: its arguments, the dict passed in (its index and
\* its content at the call) and the dict returned
CallRecord(fn, a, out) ==
    [fn |-> fn, args |-> a, in |-> ref, out |-> out, before |-> objs[ref]]

NoArgs ==
    [remover_amostras |-> FALSE, fs_por_ciclo |-> 1, freq_rede_hz |-> 1,
     half_seconds |-> 0, remover_de |-> "inicio"]

\* a crop function returns its argument, or stores a new dict
CropReturns(fn, a, skipped, result) ==
    IF skipped
    THEN /\ call' = CallRecord(fn, a, ref)
         /\ UNCHANGED <<objs, ref>>
    ELSE /\ objs' = StoreResult(result).objs
         /\ ref' = StoreResult(result).ref
         /\ call' = CallRecord(fn, a, StoreResult(result).ref)

\* resultado = readpl4(...), or a dict of another shape built by the caller
InitCrop ==
    /\ prog = "crop"
    /\ \E nvar \in 0..MaxVar, steps \in 0..MaxSteps, dt \in 1..MaxDeltaT,
          shape \in Shapes :
          /\ objs = <<Reshaped(ReadPl4Result(nvar, steps, dt), shape)>>
          /\ cpc = IF shape = "decoded" THEN "decoded" ELSE "handmade"
    /\ ref = 1
    /\ call = [fn |-> "none", args |-> NoArgs, in |-> 1, out |-> 1,
               before |-> objs[1]]
    /\ IdleRun /\ IdleMat /\ IdleStab /\ IdlePq /\ IdleDec
    /\ IdleType /\ IdleProc /\ IdleSave

\* f_readpl4._apply_cut_full_dict(data_dict, remover_amostras=..., ...)
ApplyCutFullDict ==
    /\ prog = "crop"
    /\ \E a \in CutArgs :
          CropReturns("_apply_cut_full_dict", a,
                      FullCutSkipped(objs[ref], a), CutFullDict(objs[ref], a))
    /\ UNCHANGED <<notCrop, cpc>>

\* Pl4Processor._recortar_resultado(resultado)
RecortarResultado ==
    /\ prog = "crop"
    /\ \E a \in CutArgs :
          CropReturns("_recortar_resultado", a,
                      FullCutSkipped(objs[ref], a), CutFullDict(objs[ref], a))
    /\ UNCHANGED <<notCrop, cpc>>

\* Pl4Processor.selecionar_variaveis_interesse(resultado): out["time"] and
\* one entry per selected label (equal labels share one entry)
SelecionarVariaveis ==
    /\ prog = "crop"
    /\ objs[ref].kind = "full"
    /\ objs[ref].ddim = 2
    /\ \E k \in 0..objs[ref].rows :
          /\ objs' = Append(objs, [objs[ref] EXCEPT !.kind = "interest",
                                                    !.rows = k])
          /\ ref' = Len(objs) + 1
          /\ call' = CallRecord("selecionar_variaveis_interesse", NoArgs,
                                Len(objs) + 1)
    /\ UNCHANGED <<notCrop, cpc>>

\* f_readpl4._apply_cut_interest_dict(data_dict, ...)
ApplyCutInterestDict ==
    /\ prog = "crop"
    /\ objs[ref].kind = "interest"
    /\ \E a \in CutArgs :
          CropReturns("_apply_cut_interest_dict", a,
                      InterestCutSkipped(objs[ref], a),
                      CutInterestDict(objs[ref], a))
    /\ UNCHANGED <<notCrop, cpc>>

\* Pl4Processor._recortar_medicoes(medicoes)
RecortarMedicoes ==
    /\ prog = "crop"
    /\ objs[ref].kind = "interest"
    /\ \E a \in CutArgs :
          CropReturns("_recortar_medicoes", a,
                      InterestCutSkipped(objs[ref], a),
                      CutInterestDict(objs[ref], a))
    /\ UNCHANGED <<notCrop, cpc>>

NextCrop ==
    \/ ApplyCutFullDict
    \/ RecortarResultado
    \/ SelecionarVariaveis
    \/ ApplyCutInterestDict
    \/ RecortarMedicoes

SpecCrop == InitCrop /\ [][NextCrop]_vars

\* ------------------------------------------------------------------------
\* f_readpl4.py: save_results_parquet, the renaming of repeated labels
\* ------------------------------------------------------------------------
\* the sequences over S of length up to n
SeqsUpTo(S, n) == UNION {[1..k -> S] : k \in 0..n}

\* counts[lbl] of Counter(labels)
Counts(labels, lbl) == Cardinality({i \in DOMAIN labels : labels[i] = lbl})

\* f"{lbl}_{seen[lbl]}"
Suffixed(lbl, k) == lbl \o "_" \o ToString(k)

\* a suffix for the second and later occurrences only
Renamed_FirstBare(lbl, k) == IF k = 1 THEN lbl ELSE Suffixed(lbl, k)

\* new_labels.append(f"{lbl}_{seen[lbl]}")
Renamed(lbl, k) == Suffixed(lbl, k)

\* for lbl in labels: the loop from index i on, seen being the dict of the
\* occurrences counted so far and acc the new_labels built so far
RECURSIVE RenameFrom(_, _, _, _)
RenameFrom(labels, i, seen, acc) ==
    IF i > Len(labels) THEN acc
    ELSE LET lbl == labels[i]
             k == (IF lbl \in DOMAIN seen THEN seen[lbl] ELSE 0) + 1
         IN  IF Counts(labels, lbl) > 1
             THEN RenameFrom(labels, i + 1, (lbl :> k) @@ seen,
                             Append(acc, Renamed(lbl, k)))
             ELSE RenameFrom(labels, i + 1, seen, Append(acc, lbl))

\* if any(v > 1 for v in counts.values()): labels = new_labels
Dedupe(labels) ==
    IF \E i \in DOMAIN labels : Counts(labels, labels[i]) > 1
    THEN RenameFrom(labels, 1, <<>>, <<>>)
    ELSE labels

\* selecionar_variaveis_interesse: the keys of out after "time", in the
\* order of their insertion.  out[str(lb)] = data[i, :] inserts the key at
\* the first channel of a label and only assigns it again at the others
SelectedKeys(labels, todos, nomes) ==
    LET Inserts(i) == /\ (todos \/ labels[i] \in nomes)
                      /\ \A j \in 1..(i - 1) : labels[j] # labels[i]
        first == SelectSeq([i \in DOMAIN labels |-> i], Inserts)
    IN  [k \in DOMAIN first |-> labels[first[k]]]

\* ------------------------------------------------------------------------
\* step3_Pl42Parquet.py: Pl4Processor.processar_um on one decoded file, run
\* once with salvar_todas=True ("todas") and once with salvar_todas=False
\* ("interesse"), both with the same crop attributes
\* ------------------------------------------------------------------------
Modes == {"todas", "interesse"}

\* one crop call of processar_um: the dict after it
AfterCut(d, skipped, result) == IF skipped THEN d ELSE result

\* resultado = readpl4(str(caminho_arquivo)) in both runs
InitProc ==
    /\ prog = "processar_um"
    /\ \E lb \in SeqsUpTo({"A", "B"}, MaxLabels), todos \in BOOLEAN,
          nm \in SUBSET {"A", "B"}, st \in 0..MaxRecords, a \in CutArgs :
          /\ todos => nm = {}
          /\ pcfg = [nvar |-> Len(lb), labels |-> lb, todos |-> todos,
                     nomes |-> nm, steps |-> st, args |-> a]
    /\ ppc = [m \in Modes |-> "cut"]
    /\ pdict = [m \in Modes |->
                   ReadPl4Result(pcfg.nvar, pcfg.steps, 1)]
    /\ pcuts = [m \in Modes |-> 0]
    /\ pcols = <<>>
    /\ IdleRun /\ IdleMat /\ IdleStab /\ IdlePq /\ IdleDec
    /\ IdleType /\ IdleCrop /\ IdleSave

\* the dict of run m is replaced by the result of a crop call
ProcCut(m, skipped, result) ==
    /\ pdict' = [pdict EXCEPT ![m] = AfterCut(@, skipped, result)]
    /\ pcuts' = [pcuts EXCEPT ![m] = IF skipped THEN @ ELSE @ + 1]

\* if self.remover_amostras and self.tempo_remover_s > 0:
\*     resultado = self._recortar_resultado(resultado)
ProcRecortarResultado(m) ==
    /\ prog = "processar_um"
    /\ ppc[m] = "cut"
    /\ ProcCut(m, FullCutSkipped(pdict[m], pcfg.args),
               CutFullDict(pdict[m], pcfg.args))
    /\ ppc' = [ppc EXCEPT ![m] = IF m = "todas" THEN "save" ELSE "select"]
    /\ UNCHANGED <<notProc, pcfg, pcols>>

\* medicoes = self.selecionar_variaveis_interesse(resultado)
ProcSelecionar ==
    /\ prog = "processar_um"
    /\ ppc["interesse"] = "select"
    /\ LET keys == SelectedKeys(pcfg.labels, pcfg.todos, pcfg.nomes)
       IN  pdict' = [pdict EXCEPT !["interesse"] =
                        [names |-> keys]
                           @@ [@ EXCEPT !.kind = "interest",
                                        !.rows = Len(keys)]]
    /\ ppc' = [ppc EXCEPT !["interesse"] = "cut_medicoes"]
    /\ UNCHANGED <<notProc, pcfg, pcuts, pcols>>

\* if self.remover_amostras and self.tempo_remover_s > 0:
\*     medicoes = self._recortar_medicoes(medicoes)
ProcRecortarMedicoes ==
    /\ prog = "processar_um"
    /\ ppc["interesse"] = "cut_medicoes"
    /\ ProcCut("interesse", InterestCutSkipped(pdict["interesse"], pcfg.args),
               CutInterestDict(pdict["interesse"], pcfg.args))
    /\ ppc' = [ppc EXCEPT !["interesse"] = "save"]
    /\ UNCHANGED <<notProc, pcfg, pcols>>

\* save_results_parquet(..., resultado, usar_variaveis_interesse=False,
\* remover_amostras=self.remover_amostras, ...): _apply_cut_full_dict, then
\* the table with one row per element of time
ProcSaveTodas ==
    /\ prog = "processar_um"
    /\ ppc["todas"] = "save"
    /\ ProcCut("todas", FullCutSkipped(pdict["todas"], pcfg.args),
               CutFullDict(pdict["todas"], pcfg.args))
    /\ ppc' = [ppc EXCEPT !["todas"] = "saved"]
    /\ UNCHANGED <<notProc, pcfg, pcols>>

\* save_results_parquet(..., medicoes, usar_variaveis_interesse=True, ...):
\* _apply_cut_interest_dict, then the table: time and one column per key,
\* repeated names renamed
ProcSaveInteresse ==
    /\ prog = "processar_um"
    /\ ppc["interesse"] = "save"
    /\ ProcCut("interesse", InterestCutSkipped(pdict["interesse"], pcfg.args),
               CutInterestDict(pdict["interesse"], pcfg.args))
    /\ pcols' = <<"time">> \o Dedupe(pdict["interesse"].names)
    /\ ppc' = [ppc EXCEPT !["interesse"] = "saved"]
    /\ UNCHANGED <<notProc, pcfg>>

NextProc ==
    \/ \E m \in Modes : ProcRecortarResultado(m)
    \/ ProcSelecionar
    \/ ProcRecortarMedicoes
    \/ ProcSaveTodas
    \/ ProcSaveInteresse

SpecProc == InitProc /\ [][NextProc]_vars

\* ------------------------------------------------------------------------
\* f_readpl4.py: save_results_parquet(output_path, data_dict, ...), one call.
\* data_dict is a complete dict (kind "full": time, the labels in names, the
\* matrix as rows and cols) or a dict of interest (kind "interest": time,
\* the keys in names and their series in vals).  Samples are named by their
\* index.
\* ------------------------------------------------------------------------
LabelNames == {"A", "B", "A_1", "A_2"}

\* the keys of a dict are distinct
DistinctSeq(s) == \A i, j \in DOMAIN s : i # j => s[i] # s[j]

\* a vector of n samples
Samples(n) == [i \in 1..n |-> i]

FullDicts ==
    {[kind |-> "full", time |-> Samples(n), names |-> lb, rows |-> Len(lb),
      cols |-> Samples(n + extra), vals |-> <<>>] :
        n \in 0..MaxTime, extra \in 0..1, lb \in SeqsUpTo(LabelNames, MaxLabels)}

InterestDicts ==
    UNION {{[kind |-> "interest", time |-> Samples(n), names |-> ks,
             rows |-> 0, cols |-> <<>>,
             vals |-> [i \in DOMAIN ks |-> Samples(ln[i])]] :
               n \in 0..MaxTime, ln \in [DOMAIN ks -> 0..MaxTime]} :
           ks \in {s \in SeqsUpTo(LabelNames, MaxKeys) : DistinctSeq(s)}}

\* the crop arguments of the call: n_drop of 0, 1 or 2
SaveArgs == {a \in CutArgs : a.fs_por_ciclo = 2 /\ a.half_seconds \in 0..2}

\* modo_interesse: detected from the keys when usar_variaveis_interesse is None
ModoInteresse(usar, d) ==
    IF usar = "None" THEN d.kind # "full" ELSE usar = "True"

\* the inner _apply_cut_full_dict(d)
SaveCutFull(d, a) ==
    IF \/ ~(a.remover_amostras /\ TempoPositive(a))
       \/ d.kind # "full"
       \/ Len(d.cols) # Len(d.time)
       \/ NothingToCut(calc_n_remover(a), Len(d.time))
    THEN d
    ELSE [d EXCEPT !.time = Corta(d.time, calc_n_remover(a), a.remover_de),
                   !.cols = Corta(d.cols, calc_n_remover(a), a.remover_de)]

\* the inner _apply_cut_interest_dict(d): values of length N are cut, the
\* others kept as they are
SaveCutInterest(d, a) ==
    IF \/ ~(a.remover_amostras /\ TempoPositive(a))
       \/ NothingToCut(calc_n_remover(a), Len(d.time))
    THEN d
    ELSE [d EXCEPT !.time = Corta(d.time, calc_n_remover(a), a.remover_de),
                   !.vals = [i \in DOMAIN d.vals |->
                               IF Len(d.vals[i]) = Len(d.time)
                               THEN Corta(d.vals[i], calc_n_remover(a),
                                          a.remover_de)
                               ELSE d.vals[i]]]

\* the first series whose length differs from the length of time (0: none)
FirstMismatch(d) ==
    IF \E i \in DOMAIN d.vals : Len(d.vals[i]) # Len(d.time)
    THEN CHOOSE i \in DOMAIN d.vals :
            /\ Len(d.vals[i]) # Len(d.time)
            /\ \A j \in 1..(i - 1) : Len(d.vals[j]) = Len(d.time)
    ELSE 0

NoError == [kind |-> "", name |-> ""]

InitSave ==
    /\ prog = "save_results_parquet"
    /\ spc = "start"
    /\ \E d \in FullDicts \cup InterestDicts, a \in SaveArgs,
          dest \in {"absent", "old"}, given \in BOOLEAN :
          /\ sarg = [usar |-> IF ~given THEN "None"
                              ELSE IF d.kind = "full" THEN "False"
                              ELSE "True",
                     args |-> a, dict |-> d, dest |-> dest]
          /\ sdict = d
          /\ sdest = dest
    /\ scols = <<>>
    /\ sret = NoError
    /\ IdleRun /\ IdleMat /\ IdleStab /\ IdlePq /\ IdleDec
    /\ IdleType /\ IdleCrop /\ IdleProc

\* os.makedirs(...); modo_interesse; data_dict = _apply_cut_..._dict(data_dict)
SaveApplyCut ==
    /\ prog = "save_results_parquet"
    /\ spc = "start"
    /\ sdict' = IF ModoInteresse(sarg.usar, sdict)
                THEN SaveCutInterest(sdict, sarg.args)
                ELSE SaveCutFull(sdict, sarg.args)
    /\ spc' = "table"
    /\ UNCHANGED <<notSave, sarg, scols, sdest, sret>>

\* Caso A: labels renamed, df = pd.DataFrame(data.T, columns=labels) and
\* df.insert(0, "time", time), which raises ValueError when the lengths
\* differ.  Caso B: the check of every series against time, raise ValueError
\* naming the first that differs, the renaming, df = pd.DataFrame(frame).
\* except Exception as e: print(...); raise
SaveBuildTable ==
    /\ prog = "save_results_parquet"
    /\ spc = "table"
    /\ IF ModoInteresse(sarg.usar, sdict)
       THEN IF FirstMismatch(sdict) # 0
            THEN /\ sret' = [kind |-> "ValueError",
                             name |-> sdict.names[FirstMismatch(sdict)]]
                 /\ spc' = "raised"
                 /\ UNCHANGED scols
            ELSE /\ scols' = <<"time">> \o Dedupe(sdict.names)
                 /\ spc' = "write"
                 /\ UNCHANGED sret
       ELSE IF Len(sdict.cols) # Len(sdict.time)
            THEN /\ sret' = [kind |-> "ValueError", name |-> "time"]
                 /\ spc' = "raised"
                 /\ UNCHANGED scols
            ELSE /\ scols' = <<"time">> \o Dedupe(sdict.names)
                 /\ spc' = "write"
                 /\ UNCHANGED sret
    /\ UNCHANGED <<notSave, sarg, sdict, sdest>>

\* df.to_parquet(parquet_path, index=False): a table with repeated column
\* names is refused before the file is opened; the file may fail to open;
\* otherwise the destination is opened for writing and truncated
SaveToParquet ==
    /\ prog = "save_results_parquet"
    /\ spc = "write"
    /\ IF ~DistinctSeq(scols)
       THEN /\ sret' = [kind |-> "ValueError", name |-> "columns"]
            /\ spc' = "raised"
            /\ UNCHANGED sdest
       ELSE \E opened \in BOOLEAN :
               IF opened
               THEN /\ sdest' = "partial"
                    /\ spc' = "writing"
                    /\ UNCHANGED sret
               ELSE /\ sret' = [kind |-> "OSError", name |-> ""]
                    /\ spc' = "raised"
                    /\ UNCHANGED sdest
    /\ UNCHANGED <<notSave, sarg, sdict, scols>>

\* the write ends: the table is complete and the call returns
\* (parquet_path, df.shape[0], list(df.columns)), or the write fails part-way
\* and the engine leaves the partial file or removes it; the exception is
\* printed and raised again
SaveWriteEnds ==
    /\ prog = "save_results_parquet"
    /\ spc = "writing"
    /\ \E done \in BOOLEAN :
          IF done
          THEN /\ sdest' = "new"
               /\ spc' = "returned"
               /\ UNCHANGED sret
          ELSE /\ sdest' \in {"partial", "absent"}
               /\ sret' = [kind |-> "OSError", name |-> ""]
               /\ spc' = "raised"
    /\ UNCHANGED <<notSave, sarg, sdict, scols>>

NextSave == SaveApplyCut \/ SaveBuildTable \/ SaveToParquet \/ SaveWriteEnds

SpecSave == InitSave /\ [][NextSave]_vars

\* ------------------------------------------------------------------------
\* Properties of the runner (RodaeCriaPl4.py)
\* ------------------------------------------------------------------------
Running == {j \in Jobs : pc[j] = "run"}

Terminal(j) == pc[j] = "returned"

AllConsumed == mainpc \in {"wait_tpbig", "sweep", "done"}

\* C1: in every reachable state at most NUMTHREADS jobs are Running (their
\* external process launched by run_atp_arquivo and not yet returned).
C1_RunningBound == Cardinality(Running) <= NUMTHREADS

\* NUMTHREADS jobs are Running while another submitted job waits in the queue
C1_Witness ==
    /\ Cardinality(Running) = NUMTHREADS
    /\ \E j \in Jobs : pc[j] = "queued"

\* C2: a task that created its subfolder has called the deletion of that
\* subfolder by the time it returns, whatever its outcome (moved, no .pl4,
\* copy failed, timed out, move failed).
C2_CleanupOnEveryOutcome ==
    \A j \in Jobs : (Terminal(j) /\ subtemp[j] # 0) => cleaned[j]

\* two tasks returned by an exception path, one a timeout, both after the deletion
C2_Witness ==
    \E j, k \in Jobs :
        /\ Terminal(j) /\ ret[j] = "timeout" /\ subtemp[j] # 0 /\ cleaned[j]
        /\ Terminal(k) /\ ret[k] = "exc" /\ subtemp[k] # 0 /\ cleaned[k]

C4_FailureIsolation ==
    /\ mainpc # "aborted"
    /\ AllConsumed =>
          /\ consumed = Jobs
          /\ \A j \in Jobs : Terminal(j)
    /\ mmain # "aborted"
    /\ mmain = "done" =>
          /\ mdone = Pl4Files
          /\ mcount.ok + mcount.fail = NPl4
    /\ qpc # "aborted"
    /\ qpc = "done" => qok \cup qfailed = Pl4Files

\* the runner's batch ended although one job raised, and a later job of the
\* same batch still succeeded
C4_Witness ==
    /\ mainpc = "done"
    /\ consumed = Jobs
    /\ \E j, k \in Jobs :
          /\ j < k
          /\ ret[j] = "exc"
          /\ ret[k] = "ok"

C6_StableBeforeSuccess ==
    wpc = "returned" =>
       \E i \in 1..(Len(samples) - 1) :
          /\ samples[i] = samples[i + 1]
          /\ samples[i] > 0

\* C7: a job on a pool thread works in a subfolder that exists, that its own
\* mkdir created (it did not exist before), and that no other job works in.
C7_OwnFreshSubfolder ==
    \A j \in Jobs :
        OnWorker(j) =>
            /\ subtemp[j] # 0
            /\ fresh[j]
            /\ SubDir(j) \in tmpdirs
            /\ \A k \in Jobs \ {j} : OnWorker(k) => SubDir(k) # SubDir(j)

\* one job's generated name collided with a leftover subfolder and the job
\* ended without a subfolder, while two other jobs work in their own
C7_Witness ==
    \E j, k, m \in Jobs :
        /\ Terminal(j) /\ subtemp[j] = 0 /\ ret[j] = "exc"
        /\ k # m /\ OnWorker(k) /\ OnWorker(m)

C9_AtomicReplace ==
    [][\A j \in Jobs :
          /\ pl4out[j] # "absent" => pl4out'[j] # "absent"
          /\ quar[j] # "absent" => quar'[j] # "absent"]_vars

\* C10 as stated: a decoded file has a record count that fills the declared
\* size exactly, record_count * ((channel_count+1)*4) ==
\* declared_size - 5*16 - channel_count*16 with record_count >= 0.
C10_Original ==
    dpc = "returned" =>
       /\ misc.steps >= 0
       /\ misc.steps * RowBytes(misc.nvar)
             = RecordBytes(misc.pl4size, misc.nvar)

\* C10: a decoded file has a non-negative record count that is the declared
\* record bytes divided by the record size and rounded down; the bytes left
\* over, fewer than one record, are skipped in front of the data, and the
\* records end at the declared size inside the file.  A negative count is
\* never decoded.
C10_FlooredRecordCount ==
    dpc = "returned" =>
       /\ misc.steps >= 0
       /\ misc.steps * RowBytes(misc.nvar)
             <= RecordBytes(misc.pl4size, misc.nvar)
       /\ RecordBytes(misc.pl4size, misc.nvar)
             < (misc.steps + 1) * RowBytes(misc.nvar)
       /\ Nullbytes(misc) = RecordBytes(misc.pl4size, misc.nvar)
                               - misc.steps * RowBytes(misc.nvar)
       /\ DataOffset(misc) + misc.steps * RowBytes(misc.nvar) = misc.pl4size
       /\ misc.pl4size <= file.len

\* a file with one channel was decoded into at least one record although its
\* declared size leaves a fraction of a record
C10_Witness ==
    /\ dpc = "returned"
    /\ misc.nvar = 1
    /\ misc.steps >= 1
    /\ Nullbytes(misc) > 0

\* C11 as stated: decoding a channel descriptor never fails because of its
\* type code, whatever the value of the byte.
C11_Original == tpc # "ValueError"

\* C11: a descriptor whose type byte is an ASCII digit gets a type name, the
\* one of the fixed table for codes 4, 7, 8, 9 and the generic Type-<code>
\* for the other digits; every other byte value ends the decoding with a
\* ValueError and no type name.
C11_DigitTypeNamed ==
    /\ tpc = "named" =>
          /\ IsDigitByte(tbyte)
          /\ tvar.TYPE = tbyte - 48
          /\ tvar.TYPE = 4 => tvar.TYPE_NAME = "V-node"
          /\ tvar.TYPE = 7 => tvar.TYPE_NAME = "E-bran"
          /\ tvar.TYPE = 8 => tvar.TYPE_NAME = "V-bran"
          /\ tvar.TYPE = 9 => tvar.TYPE_NAME = "I-bran"
          /\ tvar.TYPE \notin {4, 7, 8, 9} =>
                tvar.TYPE_NAME = "Type-" \o ToString(tvar.TYPE)
    /\ tpc = "ValueError" => ~IsDigitByte(tbyte)
    /\ (tpc # "unpack" /\ ~IsDigitByte(tbyte)) => tpc = "ValueError"

\* a descriptor with the digit 5, a code outside the table, was named Type-5
C11_Witness ==
    /\ tpc = "named"
    /\ tbyte = 53
    /\ tvar.TYPE_NAME = "Type-5"

\* the crops of a complete dict
FullCutFns == {"_apply_cut_full_dict", "_recortar_resultado"}

\* n = floor(samples_per_cycle * line_frequency_hz * seconds_to_remove) of
\* the last call, and N, the length of the time vector passed in
CallN == (call.args.fs_por_ciclo * call.args.freq_rede_hz
             * call.args.half_seconds) \div 2

CallLen == Len(call.before.time)

\* C12: the dict readpl4 returned and every complete dict obtained from it by
\* crops has as many matrix rows as labels and n_channels, and as many matrix
\* columns as time samples and n_samples.
C12_ShapesAgree ==
    cpc = "decoded" =>
       \A i \in DOMAIN objs :
          objs[i].kind = "full" =>
             /\ objs[i].ddim = 2
             /\ objs[i].rows = objs[i].labels
             /\ objs[i].rows = objs[i].n_channels
             /\ Len(objs[i].cols) = Len(objs[i].time)
             /\ Len(objs[i].time) = objs[i].n_samples

\* a decoded dict with a channel was cropped twice, each crop removing samples
C12_Witness ==
    /\ cpc = "decoded"
    /\ Len(objs) = 3
    /\ \A i \in 1..3 : objs[i].kind = "full" /\ objs[i].rows = 1
    /\ objs[3].n_samples < objs[2].n_samples
    /\ objs[2].n_samples < objs[1].n_samples

\* C13: a crop of a complete dict returns the dict it was given, unchanged,
\* when the seconds to remove are 0, when the count n is <= 0 or >= N, when
\* the matrix is not 2-D or when its column count differs from the time
\* length.
C13_NoCutReturnsInput ==
    (/\ call.fn \in FullCutFns
     /\ \/ call.args.half_seconds = 0
        \/ CallN <= 0
        \/ CallN >= CallLen
        \/ call.before.ddim # 2
        \/ Len(call.before.cols) # CallLen)
    => /\ call.out = call.in
       /\ objs[call.out] = call.before

\* an enabled crop of a well-shaped dict whose count reaches the whole length
\* returned its argument
C13_Witness ==
    /\ call.fn \in FullCutFns
    /\ call.args.remover_amostras
    /\ call.before.kind = "full"
    /\ call.before.ddim = 2
    /\ Len(call.before.cols) = CallLen
    /\ CallLen >= 1
    /\ CallN >= CallLen
    /\ call.out = call.in

\* C14: with 0 < n < N an enabled crop of a well-shaped complete dict returns
\* a time vector of length N-n, element i being the original element i+n for
\* a crop from the start and the original element i for a crop from the end;
\* the matrix columns shrink the same way, the rows are kept, n_samples is
\* N-n and tmax is (N-n-1)*delta_t.
C14_CropShifts ==
    (/\ call.fn \in FullCutFns
     /\ call.args.remover_amostras
     /\ call.before.kind = "full"
     /\ call.before.tdim = 1
     /\ call.before.ddim = 2
     /\ Len(call.before.cols) = CallLen
     /\ 0 < CallN
     /\ CallN < CallLen)
    => LET o == objs[call.out]
           b == call.before
           shift == IF call.args.remover_de = "fim" THEN 0 ELSE CallN
       IN  /\ Len(o.time) = CallLen - CallN
           /\ Len(o.cols) = CallLen - CallN
           /\ \A i \in 1..(CallLen - CallN) :
                 /\ o.time[i] = b.time[i + shift]
                 /\ o.cols[i] = b.cols[i + shift]
           /\ o.rows = b.rows
           /\ o.n_samples = CallLen - CallN
           /\ o.tmax = (CallLen - CallN - 1) * b.delta_t

\* one sample of three was removed from the end
C14_Witness ==
    /\ call.fn \in FullCutFns
    /\ call.args.remover_amostras
    /\ call.args.remover_de = "fim"
    /\ call.before.time = <<1, 2, 3>>
    /\ CallN = 1
    /\ call.out # call.in
    /\ objs[call.out].time = <<1, 2>>

\* C15: no call changes a dict that exists: the dict passed to a crop keeps
\* its time vector, matrix, n_samples and tmax.
C15_InputNotMutated ==
    [][prog = "crop" =>
          \A i \in DOMAIN objs : i \in DOMAIN objs' /\ objs'[i] = objs[i]]_vars

\* a crop of a dict of interest returned a new dict and the one passed in is
\* as it was at the call
C15_Witness ==
    /\ call.fn = "_apply_cut_interest_dict"
    /\ call.out # call.in
    /\ objs[call.in] = call.before
    /\ Len(objs[call.out].time) < Len(call.before.time)

\* C16: for the same decoded file and the same crop attributes the table
\* exported with all channels and the table exported with selected channels
\* have the same number of rows and the same time column.
C16_SameCropBothModes ==
    (ppc # <<>> /\ \A m \in Modes : ppc[m] = "saved") =>
       pdict["todas"].time = pdict["interesse"].time

\* the table of the call has been built
TableBuilt == scols # <<>>

\* the occurrence number of names[i] among names[1..i]
Occurrence(names, i) == Cardinality({j \in 1..i : names[j] = names[i]})

\* C17 as stated: the first occurrence of a name keeps the bare name and the
\* k-th occurrence (k >= 2) becomes name_k, after the time column.
C17_Original ==
    TableBuilt =>
       /\ Len(scols) = Len(sdict.names) + 1
       /\ scols[1] = "time"
       /\ \A i \in DOMAIN sdict.names :
             scols[i + 1] =
                IF Occurrence(sdict.names, i) = 1
                THEN sdict.names[i]
                ELSE sdict.names[i] \o "_" \o ToString(Occurrence(sdict.names, i))

\* C17: after the time column, a name that occurs once is kept and every
\* occurrence of a name that occurs more than once, the first included,
\* becomes name_k, k counting its occurrences in encounter order from 1
\* (labels A, A, B give A_1, A_2, B).  The keys of a dict of interest cannot
\* repeat, so in that mode no name is changed.
C17_EveryRepeatSuffixed ==
    TableBuilt =>
       /\ Len(scols) = Len(sdict.names) + 1
       /\ scols[1] = "time"
       /\ \A i \in DOMAIN sdict.names :
             scols[i + 1] =
                IF Cardinality({j \in DOMAIN sdict.names :
                                   sdict.names[j] = sdict.names[i]}) > 1
                THEN sdict.names[i] \o "_" \o ToString(Occurrence(sdict.names, i))
                ELSE sdict.names[i]
       /\ sdict.kind = "interest" => SubSeq(scols, 2, Len(scols)) = sdict.names

\* labels A, A, B of a complete dict were exported as A_1, A_2, B
C17_Witness ==
    /\ sdict.kind = "full"
    /\ sdict.names = <<"A", "A", "B">>
    /\ scols = <<"time", "A_1", "A_2", "B">>
    /\ spc = "returned"

\* C18: the channel column names of the table are pairwise distinct.
C18_DistinctColumns ==
    TableBuilt =>
       \A i, j \in 2..Len(scols) : i # j => scols[i] # scols[j]

\* C19: in selected mode a call given a series whose length differs from the
\* length of the time vector ends with an error that names such a series, and
\* leaves the destination as it was.
C19_MismatchRejected ==
    (/\ ModoInteresse(sarg.usar, sarg.dict)
     /\ \E i \in DOMAIN sarg.dict.vals :
           Len(sarg.dict.vals[i]) # Len(sarg.dict.time)
     /\ spc \in {"returned", "raised"})
    => /\ spc = "raised"
       /\ sret.kind = "ValueError"
       /\ \E i \in DOMAIN sarg.dict.vals :
             /\ Len(sarg.dict.vals[i]) # Len(sarg.dict.time)
             /\ sret.name = sarg.dict.names[i]
       /\ sdest = sarg.dest

\* C20: the destination is only ever replaced by a completely written table:
\* it holds what it held before the call or the new table, and after a
\* failed call a previous export is still there.
C20_PriorExportKept ==
    /\ sdest \in {sarg.dest, "new"}
    /\ (spc = "raised" /\ sarg.dest = "old") => sdest = "old"

\* C21: every dict readpl4 returns has tmax = (n_samples - 1) * delta_t,
\* n_samples being the record count derived from the header and delta_t the
\* sampling interval of the header.
C21_TmaxFromCount ==
    dpc = "returned" =>
       /\ misc.steps = Steps(file.rawsize - 1, file.rawnvar \div 2)
       /\ misc.deltat = file.deltat
       /\ misc.tmax = (misc.steps - 1) * misc.deltat

\* a file of two records sampled at one time unit was decoded
C21_Witness ==
    /\ dpc = "returned"
    /\ misc.steps = 2
    /\ misc.deltat = 1
    /\ misc.tmax = 1

\* C22: _wait_for_mat_creation_and_stabilize raises TimeoutError only with
\* the appearance time elapsed and no poll having found a file of the stem
\* (compared in lower case); while no poll has found one the call is in the
\* appearance wait or has raised TimeoutError, so it never returns a path;
\* and once a poll has found one the appearance wait is over and the size
\* of that file is what is read.
C22_AppearOrTimeout ==
    prog = "stabilize" =>
       /\ wpc = "TimeoutError" => (mat_path = "None" /\ polls = MaxPolls)
       /\ mat_path = "None" => wpc \in {"appear", "TimeoutError"}
       /\ mat_path # "None" => wpc \notin {"appear", "TimeoutError"}
       /\ mat_path \in {"None", "same", "othercase"}

\* the last poll in time found a file whose stem differs only in case, and
\* the size loop has read its size
C22_Witness ==
    /\ polls = MaxPolls
    /\ mat_path = "othercase"
    /\ wpc = "stabilize"
    /\ tries = 1

\* C23: main() submits a job only in a step where conta_tpbig() reads below
\* NUMTHREADS; in a step where it reads NUMTHREADS or more no job is
\* submitted.
C23_SubmitBelowLimit ==
    [][prog = "runner" =>
          ((\E j \in Jobs : pc[j] = "pending" /\ pc'[j] # "pending")
              => conta_tpbig < NUMTHREADS)]_vars

\* main() has a job left to submit and waits: NUMTHREADS tpbig.exe are alive
C23_Witness ==
    /\ mainpc = "submit"
    /\ nextIdx <= NJobs
    /\ \E j \in Jobs : pc[j] = "pending"
    /\ conta_tpbig >= NUMTHREADS

\* C24: a job goes through Pending (pending, queued, copy), Running (run),
\* AwaitingOutput (check) and its outcome in that order and never back; it
\* may fail before Running (the subfolder or the copy fails) or in Running
\* (the time limit).  It becomes Succeeded (ret "ok") only from the move of
\* a .pl4 that the check found in its subfolder, and the check is entered
\* only from Running, when the launched process returned; the check of the
\* .pl4 is the only step out of AwaitingOutput; an outcome once set never
\* changes and a returned task stays returned.
C24_Lifecycle ==
    [][prog = "runner" =>
         LET Rank(p) == CASE p \in {"pending", "queued", "copy"} -> 0
                          [] p = "run" -> 1
                          [] p = "check" -> 2
                          [] p \in {"mv_exists", "mv_move", "q_exists", "q_copy"} -> 3
                          [] p = "cleanup" -> 4
                          [] p = "returned" -> 5
         IN \A j \in Jobs :
              /\ Rank(pc'[j]) >= Rank(pc[j])
              /\ (pc'[j] = "run" /\ pc[j] # "run") => pc[j] = "copy"
              /\ (pc'[j] = "check" /\ pc[j] # "check") => pc[j] = "run"
              /\ (pc[j] = "check" /\ pc'[j] # "check") =>
                    /\ pc'[j] = IF pl4local[j] THEN "mv_exists" ELSE "q_exists"
                    /\ ret'[j] = "pending"
              /\ (pc'[j] = "mv_exists" /\ pc[j] # "mv_exists") =>
                    (pc[j] = "check" /\ pl4local[j])
              /\ (pc'[j] = "mv_move" /\ pc[j] # "mv_move") => pc[j] = "mv_exists"
              /\ (ret'[j] = "ok" /\ ret[j] # "ok") =>
                    (pc[j] = "mv_move" /\ pl4local[j] /\ pl4out'[j] = "new")
              /\ ret[j] # "pending" =>
                    (ret'[j] = ret[j] /\ pc'[j] \in {"cleanup", "returned"})
              /\ pc[j] = "returned" => (pc'[j] = "returned" /\ ret'[j] = ret[j])]_vars

\* one job has Succeeded and returned, one timed out in Running, and one
\* is in AwaitingOutput with no .pl4 in its subfolder
C24_Witness ==
    \E j, k, l \in Jobs :
        /\ pc[j] = "returned" /\ ret[j] = "ok" /\ pl4out[j] = "new"
        /\ ret[k] = "timeout"
        /\ pc[l] = "check" /\ ~pl4local[l]

\* C25: when the deletion of a job's subfolder by _limpa_dir fails (the
\* subfolder is still there after the task's cleanup), _limpa_dir has
\* called rmtree at least twice and at most four times before returning.
C25_RetriesOnFailure ==
    \A j \in Jobs :
        (Terminal(j) /\ cleaned[j] /\ SubDir(j) \in tmpdirs)
           => rmcalls[j] \in 2..4

\* C26: once the header is read, the data region starts at
\* (5 + nvar) * 16 + padding with padding = max(0, pl4size - expsize) and
\* expsize = (5 + nvar) * 16 + steps * (nvar + 1) * 4; the padding is never
\* negative, and when pl4size >= expsize the steps rows of the data region
\* end exactly at byte pl4size.
C26_PaddedDataRegion ==
    dpc \in {"header", "var_info", "returned"} =>
       LET expected == (5 + misc.nvar) * 16
                          + misc.steps * (misc.nvar + 1) * 4
           padding == IF misc.pl4size - expected > 0
                      THEN misc.pl4size - expected ELSE 0
       IN  /\ padding >= 0
           /\ Nullbytes(misc) = padding
           /\ DataOffset(misc) = (5 + misc.nvar) * 16 + padding
           /\ misc.pl4size >= expected =>
                 DataOffset(misc) + misc.steps * (misc.nvar + 1) * 4
                    = misc.pl4size

\* a file of one channel and two records with four bytes of padding was
\* decoded: its data region starts at byte 100 and ends at byte 116
C26_Witness ==
    /\ dpc = "returned"
    /\ misc.nvar = 1
    /\ misc.steps = 2
    /\ misc.pl4size = 116
    /\ DataOffset(misc) = 100

\* C27: a conversion never takes the .MAT of another input: the file its
\* wait returned, which it then moves out of ArquivoPL4/ and reports as its
\* result, is the one its own converter wrote, also when another input
\* being converted has the same stem in another case.
C27_OwnArtifactOnly ==
    \A f \in DOMAIN mgot : mgot[f] \in {0, f}

\* C28: with the crop enabled and 0 < n < N, the table processar_um exports
\* with all channels has exactly N - n rows, N being the number of decoded
\* records and n the computed number of samples to remove: the crop that
\* save_results_parquet applies again changes nothing.
C28_SecondCropIdempotent ==
    (/\ prog = "processar_um"
     /\ ppc["todas"] = "saved"
     /\ pcfg.args.remover_amostras
     /\ TempoPositive(pcfg.args)
     /\ calc_n_remover(pcfg.args) > 0
     /\ calc_n_remover(pcfg.args) < pcfg.steps)
    => /\ Len(pdict["todas"].time) = pcfg.steps - calc_n_remover(pcfg.args)
       /\ pcuts["todas"] = 1

\* C29: the table processar_um exports with selected channels has, after
\* time, one column for every decoded channel whose label is requested
\* (every channel when nomes_interesse is None), in channel order, channels
\* of one label being told apart by a suffix: none is missing.
C29_EverySelectedChannelExported ==
    (prog = "processar_um" /\ ppc["interesse"] = "saved") =>
       LET wanted == SelectSeq(pcfg.labels,
                               LAMBDA lb : pcfg.todos \/ lb \in pcfg.nomes)
       IN  /\ Len(pcols) = 1 + Len(wanted)
           /\ pcols = <<"time">> \o Dedupe(wanted)

\* C30 as stated: when every process the runner launches for a job
\* returns, main() eventually has submitted every input, every job
\* eventually is Succeeded or Failed with its task returned, and main()
\* eventually has run the final sweep and finished.
C30_Original ==
    <>(/\ nextIdx = NJobs + 1
       /\ \A j \in Jobs : Terminal(j) /\ ret[j] # "pending"
       /\ mainpc = "done")

\* C30: when every process the runner launches for a job returns and,
\* besides, no tpbig.exe that outlived its runATP.exe stays alive for ever,
\* main() eventually has submitted every input, every job eventually is
\* Succeeded or Failed with its task returned, and main() eventually has
\* run the final sweep and finished.
C30_BatchTerminates ==
    []<>(\A j \in tpbig : pc[j] = "run")
       => <>(/\ nextIdx = NJobs + 1
             /\ \A j \in Jobs : Terminal(j) /\ ret[j] # "pending"
             /\ mainpc = "done"
             /\ tpbig = {})

\* main() has finished a batch in which a job was timed out and the others
\* succeeded, with no tpbig.exe left
C30_Witness ==
    /\ mainpc = "done"
    /\ nextIdx = NJobs + 1
    /\ tpbig = {}
    /\ \E j \in Jobs :
          /\ ret[j] = "timeout"
          /\ \A k \in Jobs \ {j} : Terminal(k) /\ ret[k] = "ok"

=============================================================================
